---- MODULE Spec2Model ----
(***************************************************************************)
(* Model of the content-extraction cascade and the crawl orchestration of  *)
(* sys_design_crawlee (hybrid_extractor.py, routes.py, main.py).           *)
(*                                                                         *)
(* Strings that the code inspects piecewise (URLs, image src attributes)   *)
(* are sequences of string tokens, so that startswith / endswith / "in"    *)
(* and urljoin are computed on them.  A text is a record holding its       *)
(* length and what it says, since only len(text) and the comparison with   *)
(* the failure sentinel are ever inspected.                                *)
(***************************************************************************)
EXTENDS Integers, Sequences, FiniteSets, TLC

(***************************************************************************)
(* Python's None, and dictionaries as records.                             *)
(***************************************************************************)
None == [none |-> TRUE]

\* ------------------------------------------------------------------------
\* Texts
\* ------------------------------------------------------------------------

\* hybrid_extractor.py:85,132,180  `if content_length >= 500`
QualityThreshold == 500

\* hybrid_extractor.py:213  the failure sentinel, 29 characters long
SentinelString == "EXTRACTION_FAILED_ALL_METHODS"

SentinelText == [says |-> SentinelString, len |-> Len(SentinelString)]

ArticleText(n) == [says |-> "article", len |-> n]

EmptyText == [says |-> "", len |-> 0]

\* how far above the threshold the modelled text lengths go
MaxOver == 1

\* the text lengths a strategy may return: short ones, the lengths around the
\* ledger's 100-character rule and around the 500-character gate
TextLens == {50, 100, 101} \cup ((QualityThreshold - 1) .. (QualityThreshold + MaxOver))

\* len(text)
TextLen(t) == t.len

\* truth value of a string: non-empty
Truthy(t) == t.len > 0

\* ------------------------------------------------------------------------
\* URLs and image references as token sequences
\* ------------------------------------------------------------------------

\* the article whose cascade is modelled, used as base URL of its images
BaseUrl == <<"https:", "//", "h", "/", "post">>

SrcAbs == <<"https:", "//", "h", "/", "a", ".png">>
SrcProto == <<"//", "h", "/", "a", ".png">>
SrcRoot == <<"/", "a", ".png">>
SrcRel == <<"a", ".png">>
SrcOther == <<"https:", "//", "h", "/", "b", ".png">>
SrcNoExt == <<"https:", "//", "h", "/", "c">>
SrcData == <<"data:", "image/png;base64">>
\* an img tag without src attribute: img.get('src') is None
SrcMissing == <<>>

ImageExts == {".png", ".jpg", ".gif"}

\* index of the last "/" token of a URL (0 when there is none)
LastSlash(u) ==
    LET ks == {k \in 1..Len(u) : u[k] = "/"}
    IN IF ks = {} THEN 0 ELSE CHOOSE k \in ks : \A j \in ks : j <= k

\* urllib.parse.urljoin(base, ref) for a reference without scheme and host:
\* a reference starting with "/" replaces the path of base, any other
\* replaces the last segment of base's path
UrlJoin(base, ref) ==
    IF ref[1] = "/"
    THEN SubSeq(base, 1, 3) \o ref
    ELSE SubSeq(base, 1, LastSlash(base)) \o ref

\* hybrid_extractor.py:721-727  "Make URL absolute"
Absolutize(img_url, base_url) ==
    IF img_url[1] = "//" THEN <<"https:">> \o img_url
    ELSE IF img_url[1] = "/" THEN UrlJoin(base_url, img_url)
    ELSE IF img_url[1] \notin {"https:", "http:"} THEN UrlJoin(base_url, img_url)
    ELSE img_url

\* hybrid_extractor.py:730-732  os.path.splitext(path)[1] or '.jpg'
FileExt(abs_url) ==
    IF abs_url[Len(abs_url)] \in ImageExts THEN abs_url[Len(abs_url)] ELSE ".jpg"

\* hybrid_extractor.py:732  f"image_{index:03d}{file_ext}"
ImageFilename(index, abs_url) == [index |-> index, ext |-> FileExt(abs_url)]

\* blog_images_dir = None: no directory was passed
NoDir == <<>>

\* hybrid_extractor.py:741-746  blog_images_dir / filename, or the global
\* storage/images directory when no blog_images_dir was passed
ImagePath(blog_images_dir, filename) ==
    IF blog_images_dir # NoDir
    THEN [dir |-> blog_images_dir, name |-> filename]
    ELSE [dir |-> <<"storage", "images">>, name |-> filename]

\* hybrid_extractor.py:713-762  _process_image: None for a data: URL, for a
\* response other than 200 and for any exception; `ok` is the set of
\* absolute URLs whose download answers 200
ProcessImage(img_url, base_url, index, ok, blog_images_dir) ==
    IF img_url[1] = "data:" THEN None
    ELSE LET abs_url == Absolutize(img_url, base_url)
             filename == ImageFilename(index, abs_url)
         IN IF abs_url \in ok
            THEN [url |-> abs_url,
                  filename |-> filename,
                  file_path |-> ImagePath(blog_images_dir, filename),
                  index |-> index]
            ELSE None

\* ------------------------------------------------------------------------
\* Image supplementation pass
\* ------------------------------------------------------------------------

\* hybrid_extractor.py:259  the URLs of the images the strategy resolved
ExistingUrls(existing_images) ==
    {existing_images[k].url : k \in 1..Len(existing_images)}

\* hybrid_extractor.py:266  `if src and src not in existing_urls`: the raw
\* src attribute is looked up among the absolute URLs already resolved
IsNewImage(src, existing_urls, base_url) ==
    /\ src # SrcMissing
    /\ src \notin existing_urls

\* hybrid_extractor.py:262-274  the loop over all img tags of the page; the
\* i-th tag (from 0) is downloaded under index len(existing_images) + i
NewImages(all_img_tags, existing_images, base_url, ok, blog_images_dir) ==
    LET existing_urls == ExistingUrls(existing_images)
        acc[k \in 0..Len(all_img_tags)] ==
            IF k = 0 THEN <<>>
            ELSE LET src == all_img_tags[k]
                 IN IF IsNewImage(src, existing_urls, base_url)
                    THEN LET img_info == ProcessImage(src, base_url,
                                 Len(existing_images) + (k - 1), ok, blog_images_dir)
                         IN IF img_info # None
                            THEN Append(acc[k - 1], img_info)
                            ELSE acc[k - 1]
                    ELSE acc[k - 1]
    IN acc[Len(all_img_tags)]

\* hybrid_extractor.py:240-253, 283-285  page.content(), the plain fetch or
\* the parser raises inside the pass
HtmlRaises == [raises |-> TRUE]

\* hybrid_extractor.py:225-285  _enhance_with_comprehensive_images.  html is
\* the page content (rendered page or plain fetch): None when the fetch
\* answered other than 200, HtmlRaises when an exception was thrown on the
\* way; in both cases the result is returned as it came
EnhanceWithComprehensiveImages(result, base_url, html, ok, blog_images_dir) ==
    IF html = None \/ html = HtmlRaises THEN result
    ELSE LET existing_images == result.images
             new_images == NewImages(html.img_tags, existing_images, base_url,
                                     ok, blog_images_dir)
         IN [result EXCEPT !.images = existing_images \o new_images,
                           !.image_count = Len(existing_images) + Len(new_images),
                           !.comprehensive_images = TRUE]

\* ------------------------------------------------------------------------
\* Extraction cascade
\* ------------------------------------------------------------------------

\* hybrid_extractor.py:73,121,168  the fixed order of the strategies
StrategyOrder == <<"newspaper3k", "readability", "playwright">>

\* hybrid_extractor.py:89,136,184  the tier an accepted strategy yields
QualityOf(method) ==
    CASE method = "newspaper3k" -> "high"
      [] method = "readability" -> "medium"
      [] method = "playwright" -> "low"

\* the dictionary a strategy returns (hybrid_extractor.py:530-542, 586-595,
\* 699-707): the fields the cascade and its callers read
StrategyResult(method, text, title, images) ==
    [text |-> text,
     title |-> title,
     images |-> images,
     extraction_method |-> method,
     image_count |-> Len(images),
     comprehensive_images |-> FALSE]

\* hybrid_extractor.py:63-71  extraction_results as first built
NewExtractionResults ==
    [methods_tried |-> <<>>,
     methods_successful |-> <<>>,
     methods_failed |-> <<>>,
     final_result |-> None,
     extraction_quality |-> "unknown",
     errors |-> <<>>]

\* hybrid_extractor.py:212-217  the sentinel failure result
SentinelResult ==
    [text |-> SentinelText,
     title |-> <<"Extraction Failed">>,
     images |-> <<>>,
     extraction_method |-> "none"]

\* hybrid_extractor.py:85,132,180  the quality gate
PassesGate_Strict(content_length) == content_length > QualityThreshold

PassesGate(content_length) == content_length >= QualityThreshold

\* hybrid_extractor.py:79,127,175  `if result and result.get('text')`
HasText(outcome) == outcome.kind = "dict" /\ Truthy(outcome.result.text)

\* hybrid_extractor.py:82,130,178  the supplementation pass is called for
\* every strategy result that has text, before the gate is looked at
ShouldEnhance_OnlyAccepted(outcome) ==
    HasText(outcome) /\ PassesGate(TextLen(outcome.result.text))

ShouldEnhance(outcome) == HasText(outcome)

\* hybrid_extractor.py:86-89,133-136,181-184  a strategy passed the gate
RecordSuccess(res, method, enhanced_result) ==
    [res EXCEPT !.methods_tried = Append(@, method),
                !.methods_successful = Append(@, method),
                !.final_result = enhanced_result,
                !.extraction_quality = QualityOf(method)]

\* a cascade that notes the error of a strategy but not the strategy
RecordFailure_ErrorOnly(res, method, error) ==
    [res EXCEPT !.methods_tried = Append(@, method),
                !.errors = Append(@, error)]

\* a cascade that notes the failed strategy but not its error
RecordFailure_NoError(res, method, error) ==
    [res EXCEPT !.methods_tried = Append(@, method),
                !.methods_failed = Append(@, method)]

\* hybrid_extractor.py:97-99,104-106,109-111 (and the same for the other two
\* strategies)  a strategy fell short, returned nothing or raised
RecordFailure(res, method, error) ==
    [res EXCEPT !.methods_tried = Append(@, method),
                !.methods_failed = Append(@, method),
                !.errors = Append(@, error)]

\* hybrid_extractor.py:211-218  "All methods failed"
AllMethodsFailed_NoQuality(res) ==
    [res EXCEPT !.final_result = SentinelResult]

AllMethodsFailed(res) ==
    [res EXCEPT !.final_result = SentinelResult,
                !.extraction_quality = "failed"]

\* hybrid_extractor.py:94,141,189,223  extract_content_hybrid has returned
Returned == 0

\* where control goes after strategy number i: `return extraction_results`
\* when it was accepted (hybrid_extractor.py:94,141,189), else on to the
\* next try block; 4 is the "All methods failed" block
AfterStrategy_FallThrough(i, accepted) == i + 1

AfterStrategy(i, accepted) == IF accepted THEN Returned ELSE i + 1

\* the cascade of one call of extract_content_hybrid: its extraction_results,
\* its position, the strategy calls made (with what each returned) and the
\* calls of the supplementation pass (with the extraction_method of the
\* result each was given)
NewCascade ==
    [res |-> NewExtractionResults,
     pc |-> 1,
     calls |-> <<>>,
     enhanced |-> <<>>]

\* hybrid_extractor.py:74-119, 122-166, 170-209  one try block: strategy i
\* is called and answers `outcome`; html and ok are what the supplementation
\* pass finds
TryStrategy(c, i, outcome, base_url, html, ok, blog_images_dir) ==
    LET method == StrategyOrder[i]
        enhance == outcome.kind # "raise" /\ ShouldEnhance(outcome)
        call == [method |-> method, outcome |-> outcome,
                 enhance_raised |-> enhance /\ html = HtmlRaises]
        enhanced_result ==
            EnhanceWithComprehensiveImages(outcome.result, base_url, html, ok,
                                           blog_images_dir)
        accepted == /\ outcome.kind # "raise"
                    /\ HasText(outcome)
                    /\ PassesGate(TextLen(outcome.result.text))
        error == IF outcome.kind = "raise" THEN <<method, "exception">>
                 ELSE IF HasText(outcome) THEN <<method, "Insufficient content">>
                 ELSE <<method, "No content extracted">>
    IN [res |-> IF accepted
                THEN RecordSuccess(c.res, method, enhanced_result)
                ELSE RecordFailure(c.res, method, error),
        pc |-> AfterStrategy(i, accepted),
        calls |-> Append(c.calls, call),
        enhanced |-> IF enhance THEN Append(c.enhanced, method) ELSE c.enhanced]

\* hybrid_extractor.py:169  `if page:` is false: strategy 3 is not tried
SkipPlaywright(c) == [c EXCEPT !.pc = 4]

\* hybrid_extractor.py:211-223  the sentinel result is returned
FailCascade(c) == [c EXCEPT !.res = AllMethodsFailed(c.res), !.pc = Returned]

\* hybrid_extractor.py:515-528, 675-693  the images a strategy downloads
\* itself: the i-th reference (from 0) under index i
StrategyImages(srcs, base_url, ok, blog_images_dir) ==
    LET acc[k \in 0..Len(srcs)] ==
            IF k = 0 THEN <<>>
            ELSE LET img_info == ProcessImage(srcs[k], base_url, k - 1, ok,
                                              blog_images_dir)
                 IN IF img_info # None
                    THEN Append(acc[k - 1], img_info)
                    ELSE acc[k - 1]
    IN acc[Len(srcs)]

\* ------------------------------------------------------------------------
\* What the outside world may answer
\* ------------------------------------------------------------------------

\* every absolute URL an image reference of the model resolves to
AllImageUrls ==
    {Absolutize(s, BaseUrl) : s \in {SrcAbs, SrcProto, SrcRoot, SrcRel, SrcOther, SrcNoExt}}

ArticleTexts == {ArticleText(n) : n \in TextLens}

\* _extract_with_newspaper and _extract_with_readability return None below
\* 50 characters (hybrid_extractor.py:491-511, 580-582); _extract_with_playwright
\* returns whatever the page holds, the empty string and the very text of
\* the sentinel included (hybrid_extractor.py:638-641, 699-707)
TextsOf(method) ==
    IF method = "playwright"
    THEN ArticleTexts \cup {EmptyText, SentinelText}
    ELSE ArticleTexts

PageTitles == {<<"T1">>, <<"T2">>}

\* readability resolves no images (hybrid_extractor.py:593-594); the other
\* two download the references they find, of which _process_image may skip
\* one (a data: URL)
ImagesOf(method) ==
    IF method = "readability"
    THEN {<<>>}
    ELSE {StrategyImages(srcs, BaseUrl, AllImageUrls, NoDir) :
            srcs \in {<<>>, <<SrcAbs>>, <<SrcData, SrcAbs>>}}

\* what a strategy call can come to: an exception reaching the cascade's
\* except block, None, or a dictionary
Outcomes(method) ==
    {[kind |-> "raise"], [kind |-> "none"]}
    \cup {[kind |-> "dict", result |-> StrategyResult(method, t, <<"T1">>, imgs)] :
            t \in TextsOf(method), imgs \in ImagesOf(method)}

\* the number of img tags of the modelled pages
MaxImgTags == 2

\* what the src attribute of an img tag may be
ImgSrcs == {SrcAbs, SrcProto, SrcRoot, SrcRel, SrcOther, SrcData, SrcMissing}

\* the page content the supplementation pass gets: none, or a page with its
\* img tags in document order (hybrid_extractor.py:251-254)
HtmlChoices ==
    {None, HtmlRaises} \cup {[img_tags |-> tags] : tags \in UNION {[1..n -> ImgSrcs] : n \in 0..MaxImgTags}}

\* hybrid_extractor.py:73-223  extract_content_hybrid from position c.pc to
\* its return: the try blocks in turn, outcomes[i] being what strategy i
\* answers if it is called
RECURSIVE CascadeFrom(_, _, _, _, _, _, _)
CascadeFrom(c, page, outcomes, base_url, html, ok, blog_images_dir) ==
    IF c.pc = Returned THEN c
    ELSE IF c.pc = 4 THEN FailCascade(c)
    ELSE CascadeFrom(IF c.pc = 3 /\ ~page
                     THEN SkipPlaywright(c)
                     ELSE TryStrategy(c, c.pc, outcomes[c.pc], base_url, html, ok,
                                      blog_images_dir),
                     page, outcomes, base_url, html, ok, blog_images_dir)

\* hybrid_extractor.py:45-223  extract_content_hybrid from call to return
RunCascade(page, outcomes, base_url, html, ok, blog_images_dir) ==
    CascadeFrom(NewCascade, page, outcomes, base_url, html, ok, blog_images_dir)

\* ------------------------------------------------------------------------
\* Catalog, files and the ledger check
\* ------------------------------------------------------------------------

\* hybrid_extractor.py:764-767, routes.py:168-171  md5 of f"{url}_{title}",
\* first 12 hex digits; the digest is modelled by the string it is taken of
generate_blog_id(url, title) == url \o <<"_">> \o title

\* a file of the storage directory is a path and what was written to it
WriteFile(fs, path, content) ==
    {f \in fs : f.path # path} \cup {[path |-> path, content |-> content]}

FileAt(fs, path) == {f \in fs : f.path = path}

\* hybrid_extractor.py:748-749  _process_image opens img_path for writing
\* before it returns the record: the files of the records, written in order
ImageWrites(fs, images) ==
    LET acc[k \in 0..Len(images)] ==
            IF k = 0 THEN fs
            ELSE WriteFile(acc[k - 1], images[k].file_path,
                           [kind |-> "image", url |-> images[k].url])
    IN acc[Len(images)]

\* hybrid_extractor.py:74-92  the files on disk after one try block: the
\* strategy downloaded its images, then the supplementation pass its own
FilesAfterTry(fs, outcome, base_url, html, ok, blog_images_dir) ==
    IF outcome.kind # "dict" THEN fs
    ELSE IF ShouldEnhance(outcome)
    THEN ImageWrites(fs, EnhanceWithComprehensiveImages(outcome.result, base_url, html,
                                                        ok, blog_images_dir).images)
    ELSE ImageWrites(fs, outcome.result.images)

\* routes.py:1258-1282  INSERT OR REPLACE with blog_id PRIMARY KEY and
\* url UNIQUE (routes.py:1228,1233): every row that clashes with the new one
\* on either column is deleted, then the new row is inserted
InsertOrReplace_ByIdOnly(rows, row) ==
    {r \in rows : r.blog_id # row.blog_id} \cup {row}

InsertOrReplace(rows, row) ==
    {r \in rows : r.blog_id # row.blog_id /\ r.url # row.url} \cup {row}

\* routes.py:950-954  the same for pdf_files (pdf_id PRIMARY KEY, url UNIQUE)
InsertOrReplacePdf(rows, row) ==
    {r \in rows : r.pdf_id # row.pdf_id /\ r.url # row.url} \cup {row}

\* routes.py:1169  the ledger's length rule
MinContentLength == 100

\* SQL NULL in the column content_length
NullLength == -1

\* routes.py:1166-1170  is_successful
IsSuccessful_AtLeast(extraction_quality, content_length) ==
    /\ extraction_quality # "failed"
    /\ content_length # NullLength /\ content_length # 0
    /\ content_length >= MinContentLength

IsSuccessful(extraction_quality, content_length) ==
    /\ extraction_quality # "failed"
    /\ content_length # NullLength /\ content_length # 0
    /\ content_length > MinContentLength

\* routes.py:1144-1188  check_blog_extraction_status: the row of the URL is
\* looked up in blog_content (a missing table counts as no row)
check_blog_extraction_status(url, rows) ==
    LET found == {r \in rows : r.url = url}
    IN IF found = {}
       THEN [exists |-> FALSE, successful |-> FALSE]
       ELSE LET result == CHOOSE r \in found : TRUE
            IN [exists |-> TRUE,
                successful |-> IsSuccessful(result.extraction_quality,
                                            result.content_length)]

\* an a tag without href: get_attribute('href') is None
NoHref == <<>>

\* routes.py:1563-1586  what handle_main_page does with one link: nothing
\* without href, skip a URL already seen in this session, go on when the
\* force flag is set, else ask the ledger
LinkDecision_NoLedger(href, processed, force, rows) ==
    IF href = NoHref THEN "no_href"
    ELSE IF href \in processed THEN "duplicate"
    ELSE "proceed"

\* a loop that does not look at processed_urls
LinkDecision_NoDedup(href, processed, force, rows) ==
    IF href = NoHref THEN "no_href"
    ELSE IF force THEN "proceed"
    ELSE IF check_blog_extraction_status(href, rows).successful THEN "skip"
    ELSE "proceed"

LinkDecision(href, processed, force, rows) ==
    IF href = NoHref THEN "no_href"
    ELSE IF href \in processed THEN "duplicate"
    ELSE IF force THEN "proceed"
    ELSE IF check_blog_extraction_status(href, rows).successful THEN "skip"
    ELSE "proceed"

\* routes.py:1589-1591  the PDF test, on the lower-cased href
ToLower(tok) == IF tok = ".PDF" THEN ".pdf" ELSE tok

IsPdfUrl_SuffixOnly(href) == ToLower(href[Len(href)]) = ".pdf"

IsPdfUrl(href) ==
    \/ ToLower(href[Len(href)]) = ".pdf"
    \/ \E k \in 1..(Len(href) - 2) :
         /\ href[k] = "/" /\ ToLower(href[k + 1]) = "pdf" /\ href[k + 2] = "/"
    \/ \E k \in 1..(Len(href) - 2) :
         /\ href[k] = "arxiv.org" /\ href[k + 1] = "/" /\ ToLower(href[k + 2]) = "pdf"

\* routes.py:1556  limit = MAX_BLOGS_TO_PROCESS if MAX_BLOGS_TO_PROCESS > 0
\* else link_count, and range(min(link_count, limit))
\* a loop that goes through every link whatever max_blogs is
LinkLimit_NoCap(max_blogs, link_count) == link_count

LinkLimit(max_blogs, link_count) ==
    LET limit == IF max_blogs > 0 THEN max_blogs ELSE link_count
    IN IF link_count < limit THEN link_count ELSE limit

\* routes.py:1626  company from the host name; routes.py:1809-1815  the
\* title a PDF is filed under
PdfTitle(url) ==
    IF \E k \in 1..Len(url) : url[k] = "arxiv.org"
    THEN <<"arXiv Paper", url[Len(url)]>>
    ELSE <<"PDF Document from", url[3]>>

\* routes.py:1862-1863  pdfs_dir / f"{pdf_id}_{title[:50]}.pdf"
PdfPath(pdf_id, title) ==
    [dir |-> <<"storage", "pdfs">>, name |-> [stem |-> pdf_id \o <<"_">> \o title, ext |-> ".pdf"]]

\* routes.py:1659-1664  blog_dir / f"{blog_id}_{title[:50]}.txt"
TextPath(blog_id, title) ==
    [dir |-> <<"storage", "blogs">> \o blog_id,
     name |-> [stem |-> blog_id \o <<"_">> \o title, ext |-> ".txt"]]

\* routes.py:1714  blog_dir / 'metadata.json'
MetadataPath(blog_id) ==
    [dir |-> <<"storage", "blogs">> \o blog_id,
     name |-> [stem |-> <<"metadata">>, ext |-> ".json"]]

\* hybrid_extractor.py:785-786  the log is named by the id of the URL and
\* the title of the final result
LogPath(url, final_result) ==
    [dir |-> <<"storage", "extraction_logs">>,
     name |-> [stem |-> generate_blog_id(url, final_result.title) \o <<"_extraction_log">>,
               ext |-> ".json"]]

\* hybrid_extractor.py:776-796  save_extraction_log: with final_result None
\* the lookup of its title raises, the except block logs that and nothing
\* is written
save_extraction_log(fs, url, extraction_results) ==
    IF extraction_results.final_result = None
    THEN fs
    ELSE WriteFile(fs, LogPath(url, extraction_results.final_result),
                   [kind |-> "extraction_log",
                    extraction_quality |-> extraction_results.extraction_quality])

\* routes.py:632  the flat summary table that save_extraction_issues appends
\* to; no handler calls save_extraction_issues
SummaryCsvPath ==
    [dir |-> <<"storage", "extraction_issues">>,
     name |-> [stem |-> <<"extraction_issues_summary">>, ext |-> ".csv"]]

\* routes.py:1750-1763  the record the handler builds when it caught a fault
FailedResults ==
    [methods_tried |-> <<>>,
     methods_successful |-> <<>>,
     methods_failed |-> <<"all">>,
     final_result |-> None,
     extraction_quality |-> "failed",
     errors |-> <<"Handler error">>]

\* routes.py:1652  no content: nothing of the article is persisted
NoContent_IgnoresSentinel(final_result) ==
    \/ final_result = None
    \/ ~Truthy(final_result.text)

NoContent(final_result) ==
    \/ final_result = None
    \/ ~Truthy(final_result.text)
    \/ final_result.text = SentinelText

\* routes.py:1723-1738  blog_data
BlogData(blog_id, title, url, extraction_results) ==
    LET final_result == extraction_results.final_result
    IN [blog_id |-> blog_id,
        title |-> title,
        url |-> url,
        content_length |-> TextLen(final_result.text),
        image_count |-> Len(final_result.images),
        text_file_path |-> TextPath(blog_id, title),
        extraction_method |-> final_result.extraction_method,
        extraction_quality |-> extraction_results.extraction_quality]

\* where a write of the handler may fail (routes.py:1666, 1716, 1741)
Faults == {"none", "text_file", "metadata_file", "database"}

\* routes.py:1657-1765  the article is persisted: text file, metadata.json,
\* extraction log, blog_content row, in this order; a write that raises
\* ends it in the except block, which tries to log FailedResults
PersistArticle(fs, rows, url, title, extraction_results, fault) ==
    LET blog_id == generate_blog_id(url, title)
        final_result == extraction_results.final_result
        fs1 == IF fault = "text_file" THEN fs
               ELSE WriteFile(fs, TextPath(blog_id, title),
                              [kind |-> "text",
                               content_length |-> TextLen(final_result.text)])
        fs2 == IF fault \in {"text_file", "metadata_file"} THEN fs1
               ELSE WriteFile(fs1, MetadataPath(blog_id),
                              [kind |-> "metadata",
                               extraction_quality |-> extraction_results.extraction_quality])
        \* the log of the attempt when the files were written, else the log
        \* the except block tries to write
        logged == IF fault \in {"text_file", "metadata_file"}
                  THEN FailedResults ELSE extraction_results
        fs3 == save_extraction_log(fs2, url, logged)
        blog_data == BlogData(blog_id, title, url, extraction_results)
    IN [files |-> fs3,
        rows |-> IF fault = "none" THEN InsertOrReplace(rows, blog_data) ELSE rows]

\* ------------------------------------------------------------------------
\* PDF path
\* ------------------------------------------------------------------------

\* routes.py:1831  max_retries
max_retries == 3

\* routes.py:1873  `if file_size > 1000`
PdfCheckedAbove == 1000

\* routes.py:1872-1879  "Verify PDF validity": the first four bytes of a
\* file of more than 1000 bytes are read and the finding is logged
PdfVerdict(file_size, magic_bytes) ==
    IF file_size > PdfCheckedAbove
    THEN IF magic_bytes = "%PDF" THEN "valid" ELSE "may not be a valid PDF"
    ELSE "not looked at"

\* routes.py:1860  the response is taken for a PDF (the URL is tested as it
\* is, not lower-cased)
TakenForPdf(content_type, url) ==
    \/ content_type = "application/pdf"
    \/ url[Len(url)] = ".pdf"
    \/ \E k \in 1..(Len(url) - 2) :
         url[k] = "arxiv.org" /\ url[k + 1] = "/" /\ url[k + 2] = "pdf"

\* routes.py:1861-1888  a response 200 taken for a PDF: the payload is
\* written, looked at, and its row saved whatever the finding; a failure
\* of the database write is logged and swallowed (routes.py:962-966)
SavePdf(fs, rows, url, payload, db_ok) ==
    LET title == PdfTitle(url)
        pdf_id == generate_blog_id(url, title)
        pdf_file_path == PdfPath(pdf_id, title)
        file_size == payload.size
        row == [pdf_id |-> pdf_id, url |-> url,
                file_path |-> pdf_file_path, file_size |-> file_size]
    IN [files |-> WriteFile(fs, pdf_file_path,
                            [kind |-> "pdf", size |-> file_size,
                             magic_bytes |-> payload.magic_bytes]),
        rows |-> IF db_ok THEN InsertOrReplacePdf(rows, row) ELSE rows,
        verdict |-> PdfVerdict(file_size, payload.magic_bytes)]

\* routes.py:1832-1909  the download loop from attempt k on: answers[k] is
\* what the k-th request comes to; the record tells the files and rows left
\* behind, the number of attempts made and how the handler ended: "saved",
\* "gave_up" (routes.py:1904, the loop ran out) or "error" (routes.py:1901
\* re-raises the exception of the last attempt and routes.py:1907-1909
\* catches and logs it)
RECURSIVE DownloadPdf(_, _, _, _, _, _)
DownloadPdf(fs, rows, url, answers, db_ok, k) ==
    IF k > max_retries
    THEN [files |-> fs, rows |-> rows, attempts |-> max_retries, saved |-> FALSE,
          outcome |-> "gave_up"]
    ELSE LET a == answers[k]
         IN IF a.kind = "exception"
            THEN IF k < max_retries
                 THEN DownloadPdf(fs, rows, url, answers, db_ok, k + 1)
                 ELSE [files |-> fs, rows |-> rows, attempts |-> k, saved |-> FALSE,
                       outcome |-> "error"]
            ELSE IF a.status = 200 /\ TakenForPdf(a.content_type, url)
                 THEN LET done == SavePdf(fs, rows, url, a.payload, db_ok)
                      IN [files |-> done.files, rows |-> done.rows,
                          attempts |-> k, saved |-> TRUE, outcome |-> "saved"]
                 ELSE DownloadPdf(fs, rows, url, answers, db_ok, k + 1)

\* a handler that notes the URL in the catalog before the download is over
handle_pdf_url_directly_RowFirst(fs, rows, url, answers, db_ok) ==
    LET done == DownloadPdf(fs, rows, url, answers, db_ok, 1)
        pdf_id == generate_blog_id(url, PdfTitle(url))
        row == [pdf_id |-> pdf_id, url |-> url,
                file_path |-> PdfPath(pdf_id, PdfTitle(url)), file_size |-> 0]
    IN IF done.saved THEN done
       ELSE [done EXCEPT !.rows = InsertOrReplacePdf(rows, row)]

\* routes.py:1800-1909  handle_pdf_url_directly
handle_pdf_url_directly(fs, rows, url, answers, db_ok) ==
    DownloadPdf(fs, rows, url, answers, db_ok, 1)

\* what a download request may come to: an exception (timeout, connection
\* error), a status other than 200, or 200 with some content type and payload
PdfPayloads ==
    [size : {PdfCheckedAbove, PdfCheckedAbove + 1}, magic_bytes : {"%PDF", "<htm"}]

PdfAnswers ==
    {[kind |-> "exception"]}
    \cup {[kind |-> "response", status |-> 404, content_type |-> "text/html",
           payload |-> None]}
    \cup [kind : {"response"}, status : {200},
          content_type : {"application/pdf", "text/html"}, payload : PdfPayloads]

\* ------------------------------------------------------------------------
\* State
\* ------------------------------------------------------------------------

\* the download loop stops at the first answer that is saved, so the answers
\* after it are never asked for: they are fixed to an exception
AnswerSaves(a, url_says_pdf) ==
    a.kind = "response" /\ a.status = 200
        /\ (url_says_pdf \/ a.content_type = "application/pdf")

AnswerRuns(url_says_pdf) ==
    {s \in [1..max_retries -> PdfAnswers] :
        \A k \in 2..max_retries :
            (\E j \in 1..(k - 1) : AnswerSaves(s[j], url_says_pdf))
                => s[k] = [kind |-> "exception"]}

AnswerRunsUrlSaysPdf == AnswerRuns(TRUE)

AnswerRunsUrlSilent == AnswerRuns(FALSE)

PdfAnswerRuns(url) ==
    IF TakenForPdf("", url) THEN AnswerRunsUrlSaysPdf ELSE AnswerRunsUrlSilent

\* the articles and documents an index page may list
BlogA == <<"https:", "//", "a.com", "/", "post">>
BlogB == <<"https:", "//", "b.com", "/", "post">>
PdfC == <<"https:", "//", "c.org", "/", "paper", ".pdf">>

Hrefs == {BlogA, BlogB, PdfC, NoHref}

\* the number of links of the modelled index pages
MaxLinks == 2

\* the number of crawler runs over the same storage directory
MaxRuns == 2

LinkLists == UNION {[1..n -> Hrefs] : n \in 0..MaxLinks}

\* main.py:53  the values of max_blogs tried
MaxBlogsChoices == {-1, 1}

\* a strategy answered with a text of at least 500 characters
Usable(outcome) == outcome.kind = "dict" /\ outcome.result.text.len >= QualityThreshold

\* what the strategies answer when the handler runs the cascade: too little
\* or enough; the strategies after the accepted one are not called, their
\* answers are fixed to None
HandlerOutcomes(method) ==
    {[kind |-> "dict", result |-> StrategyResult(method, ArticleText(n), <<"T1">>, <<>>)] :
        n \in {QualityThreshold - 1, QualityThreshold}}

HandlerOutcomeRuns ==
    {r \in [1..3 -> {[kind |-> "none"]}
                    \cup UNION {HandlerOutcomes(StrategyOrder[i]) : i \in 1..3}] :
        \A k \in 1..3 :
            IF \E j \in 1..(k - 1) : Usable(r[j])
            THEN r[k] = [kind |-> "none"]
            ELSE r[k] \in HandlerOutcomes(StrategyOrder[k])}

\* routes.py:1627  page.title(): the title an article has on the first run
\* and the titles it may have on a later one
TitlesAt(run) == IF run = 1 THEN {<<"T1">>} ELSE PageTitles

\* ------------------------------------------------------------------------
\* State
\* ------------------------------------------------------------------------

VARIABLES
    cas,                    \* the running call of extract_content_hybrid
    casPage,                \* whether it was given a Playwright page
    FORCE_REEXTRACT_BLOGS,  \* routes.py:25, set by main
    LOAD_MORE,              \* main.py:65, set by main
    TEST_ONLY_PROBLEMATIC_DOMAINS,  \* main.py:66, set by main
    lm,                     \* the call of load_more_handler
    MAX_BLOGS_TO_PROCESS,   \* routes.py:19, set by main
    blog_content,           \* the rows of table blog_content
    pdf_files,              \* the rows of table pdf_files
    files,                  \* the files under storage/
    runs,                   \* crawler runs started so far
    phase,                  \* "idle", "links" (handle_main_page), "queue", "done"
    blog_links,             \* the hrefs of the index page
    link_i,                 \* links of it gone through
    processed_urls,         \* routes.py:1304
    blog_requests,          \* routes.py:1555
    request_queue,          \* BLOG requests not yet handled
    dispatched,             \* this run: URLs sent to the PDF path or enqueued
    extracted,              \* this run: URLs the cascade was run on
    ledger_at_start,        \* blog_content as this run found it
    log,                    \* this run: how each handler call ended, as logged
    db_ops                  \* per crawl slot: its call of execute_db_operation

cascadeVars == <<cas, casPage>>

storeVars == <<blog_content, pdf_files, files, db_ops>>

\* the handlers that the crawler runs side by side
MaxSlots == 2

Slots == 1..MaxSlots

\* no call of execute_db_operation is under way; `last` is how the slot's
\* last call ended for its caller
NoOps == [s \in Slots |-> [pc |-> "idle", last |-> "none"]]

\* the module attributes main sets
optionVars == <<FORCE_REEXTRACT_BLOGS, MAX_BLOGS_TO_PROCESS, LOAD_MORE,
                TEST_ONLY_PROBLEMATIC_DOMAINS>>

\* load_more_handler was not called
NotCalled == [pc |-> "not_called"]

runVars == <<optionVars, lm, runs, phase, blog_links,
             link_i, processed_urls, blog_requests, request_queue, dispatched,
             extracted, ledger_at_start, log>>

vars == <<cascadeVars, storeVars, runVars>>

\* no crawl has run yet
NoSession ==
    /\ FORCE_REEXTRACT_BLOGS = FALSE
    /\ MAX_BLOGS_TO_PROCESS = -1
    /\ LOAD_MORE = FALSE
    /\ TEST_ONLY_PROBLEMATIC_DOMAINS = FALSE
    /\ lm = NotCalled
    /\ pdf_files = {}
    /\ files = {}
    /\ runs = 0
    /\ phase = "idle"
    /\ link_i = 0
    /\ processed_urls = {}
    /\ blog_requests = <<>>
    /\ request_queue = {}
    /\ dispatched = <<>>
    /\ extracted = {}
    /\ ledger_at_start = {}
    /\ log = {}
    /\ db_ops = NoOps

\* no crawl has run yet and the catalog is empty
CrawlIdle ==
    /\ blog_content = {}
    /\ NoSession

\* ------------------------------------------------------------------------
\* The cascade, one try block at a time
\* ------------------------------------------------------------------------

InitCascade ==
    /\ cas = NewCascade
    /\ casPage \in BOOLEAN
    /\ blog_links = <<>>
    /\ CrawlIdle

\* hybrid_extractor.py:73-119
TryNewspaper ==
    /\ cas.pc = 1
    /\ \E outcome \in Outcomes("newspaper3k"), html \in HtmlChoices :
         /\ cas' = TryStrategy(cas, 1, outcome, BaseUrl, html, AllImageUrls, NoDir)
         /\ files' = FilesAfterTry(files, outcome, BaseUrl, html, AllImageUrls, NoDir)
    /\ UNCHANGED <<casPage, blog_content, pdf_files, db_ops, runVars>>

\* hybrid_extractor.py:121-166
TryReadability ==
    /\ cas.pc = 2
    /\ \E outcome \in Outcomes("readability"), html \in HtmlChoices :
         /\ cas' = TryStrategy(cas, 2, outcome, BaseUrl, html, AllImageUrls, NoDir)
         /\ files' = FilesAfterTry(files, outcome, BaseUrl, html, AllImageUrls, NoDir)
    /\ UNCHANGED <<casPage, blog_content, pdf_files, db_ops, runVars>>

\* hybrid_extractor.py:168-209
TryPlaywright ==
    /\ cas.pc = 3
    /\ casPage
    /\ \E outcome \in Outcomes("playwright"), html \in HtmlChoices :
         /\ cas' = TryStrategy(cas, 3, outcome, BaseUrl, html, AllImageUrls, NoDir)
         /\ files' = FilesAfterTry(files, outcome, BaseUrl, html, AllImageUrls, NoDir)
    /\ UNCHANGED <<casPage, blog_content, pdf_files, db_ops, runVars>>

\* hybrid_extractor.py:169  no page: the third try block is skipped
NoPage ==
    /\ cas.pc = 3
    /\ ~casPage
    /\ cas' = SkipPlaywright(cas)
    /\ UNCHANGED <<casPage, storeVars, runVars>>

\* hybrid_extractor.py:211-223
ReturnAllFailed ==
    /\ cas.pc = 4
    /\ cas' = FailCascade(cas)
    /\ UNCHANGED <<casPage, storeVars, runVars>>

NextCascade ==
    \/ TryNewspaper
    \/ TryReadability
    \/ TryPlaywright
    \/ NoPage
    \/ ReturnAllFailed

SpecCascade == InitCascade /\ [][NextCascade]_vars

\* ------------------------------------------------------------------------
\* The crawl: main, handle_main_page link by link, the queued BLOG requests
\* ------------------------------------------------------------------------

\* an empty storage directory, and the index page the runs will load
Init ==
    /\ cas = NewCascade
    /\ casPage = TRUE
    /\ blog_links \in LinkLists
    /\ CrawlIdle

\* main.py:53-100 and routes.py:1292-1552  a run is started with its flags
\* and the index page is loaded; without links handle_main_page returns
main(max_blogs, force_reextract, load_more, test_problematic) ==
    /\ phase = "idle"
    /\ runs < MaxRuns
    /\ MAX_BLOGS_TO_PROCESS' = max_blogs
    /\ FORCE_REEXTRACT_BLOGS' = force_reextract
    /\ LOAD_MORE' = load_more
    /\ TEST_ONLY_PROBLEMATIC_DOMAINS' = test_problematic
    /\ phase' = IF Len(blog_links) = 0 THEN "done" ELSE "links"
    /\ runs' = runs + 1
    /\ link_i' = 0
    /\ processed_urls' = {}
    /\ blog_requests' = <<>>
    /\ request_queue' = {}
    /\ dispatched' = <<>>
    /\ extracted' = {}
    /\ ledger_at_start' = blog_content
    /\ log' = {}
    /\ UNCHANGED <<cascadeVars, storeVars, blog_links, lm>>

\* main.py:53  a run with load_more and test_problematic left at their
\* defaults
StartRun ==
    \E force \in BOOLEAN, max_blogs \in MaxBlogsChoices :
        main(max_blogs, force, FALSE, FALSE)

\* main.py:53  a run with any of the four options
StartFlaggedRun ==
    \E force, load_more, test_problematic \in BOOLEAN, max_blogs \in MaxBlogsChoices :
        main(max_blogs, force, load_more, test_problematic)

\* routes.py:1557  the loop has a link left
LinkLeft ==
    /\ phase = "links"
    /\ link_i < LinkLimit(MAX_BLOGS_TO_PROCESS, Len(blog_links))

\* routes.py:1560-1561  the link the loop is at
Href == blog_links[link_i + 1]

Decision == LinkDecision(Href, processed_urls, FORCE_REEXTRACT_BLOGS, blog_content)

\* routes.py:1563-1567, 1577-1579  a link without href, a URL already seen
\* in this session, a URL the ledger has as successful: on to the next link
PassLink ==
    /\ LinkLeft
    /\ Decision \in {"no_href", "duplicate", "skip"}
    /\ link_i' = link_i + 1
    /\ UNCHANGED <<cascadeVars, storeVars, optionVars, lm,
                   runs, phase, blog_links, processed_urls, blog_requests,
                   request_queue, dispatched, extracted, ledger_at_start, log>>

\* routes.py:1585-1593  a PDF URL is marked and downloaded on the spot
DispatchPdf ==
    /\ LinkLeft
    /\ Decision = "proceed"
    /\ IsPdfUrl(Href)
    /\ \E answers \in PdfAnswerRuns(Href), db_ok \in BOOLEAN :
         LET done == handle_pdf_url_directly(files, pdf_files, Href, answers, db_ok)
         IN /\ files' = done.files
            /\ pdf_files' = done.rows
            /\ log' = log \cup {[handler |-> "handle_pdf_url_directly", url |-> Href,
                                  attempts |-> done.attempts, outcome |-> done.outcome]}
    /\ processed_urls' = processed_urls \cup {Href}
    /\ dispatched' = Append(dispatched, [url |-> Href, route |-> "PDF"])
    /\ link_i' = link_i + 1
    /\ UNCHANGED <<cascadeVars, blog_content, optionVars, lm,
                   runs, phase, blog_links, blog_requests, request_queue,
                   extracted, ledger_at_start, db_ops>>

\* routes.py:1585-1586, 1594-1597  any other URL is marked and becomes a
\* BLOG request
EnqueueBlog ==
    /\ LinkLeft
    /\ Decision = "proceed"
    /\ ~IsPdfUrl(Href)
    /\ processed_urls' = processed_urls \cup {Href}
    /\ blog_requests' = Append(blog_requests, Href)
    /\ dispatched' = Append(dispatched, [url |-> Href, route |-> "BLOG"])
    /\ link_i' = link_i + 1
    /\ UNCHANGED <<cascadeVars, storeVars, optionVars, lm,
                   runs, phase, blog_links, request_queue, extracted, ledger_at_start,
                   log>>

\* routes.py:1603-1608  after the loop the BLOG requests go to the queue
FinishMainPage ==
    /\ phase = "links"
    /\ link_i = LinkLimit(MAX_BLOGS_TO_PROCESS, Len(blog_links))
    /\ request_queue' = {blog_requests[k] : k \in 1..Len(blog_requests)}
    /\ phase' = IF blog_requests = <<>> THEN "done" ELSE "queue"
    /\ UNCHANGED <<cascadeVars, storeVars, optionVars, lm,
                   runs, blog_links, link_i, processed_urls, blog_requests,
                   dispatched, extracted, ledger_at_start, log>>

\* a router that lets the exception of a handler end the crawl
AfterBlogHandler_Propagates(queue, url, logged) ==
    IF queue = {url} \/ \E r \in logged : r.outcome = "error" THEN "done" ELSE "queue"

\* routes.py:1750-1769, 1924-1937  handle_blog_content logs what it catches
\* and returns, default_handler catches what is left: whatever the handler
\* logged, the crawler takes the next request of the queue
AfterBlogHandler(queue, url, logged) ==
    IF queue = {url} THEN "done" ELSE "queue"

\* main.py:90  max_requests when max_blogs sets no limit
NoLimitRequests == 500

\* main.py:83-91, 96  max_requests_per_crawl as main computes it
max_requests_per_crawl(max_blogs) ==
    IF max_blogs > 0 THEN max_blogs + 3 ELSE NoLimitRequests

\* the requests the crawler has handled in this run: the index page and the
\* BLOG requests that went through handle_blog_content
RequestsHandled == 1 + Cardinality(extracted)

\* routes.py:1614-1769  handle_blog_content for one queued request, as long
\* as the crawler hands requests out (main.py:96): title and id, the
\* cascade, and then either the log alone (no content) or the article's
\* files and row; `fault` is where a write of the handler fails
HandleRequest(url, title, outcomes, fault) ==
    /\ phase = "queue"
    /\ url \in request_queue
    /\ RequestsHandled < max_requests_per_crawl(MAX_BLOGS_TO_PROCESS)
    /\ LET c == RunCascade(TRUE, outcomes, url, [img_tags |-> <<>>], AllImageUrls, NoDir)
           extraction_results == c.res
       IN IF NoContent(extraction_results.final_result)
          THEN /\ fault = "none"
               /\ files' = save_extraction_log(files, url, extraction_results)
               /\ log' = log \cup {[handler |-> "handle_blog_content", url |-> url,
                                     blog_id |-> generate_blog_id(url, title),
                                     outcome |-> "no_content", fault |-> "none"]}
               /\ UNCHANGED blog_content
          ELSE LET done == PersistArticle(files, blog_content, url, title,
                                          extraction_results, fault)
               IN /\ files' = done.files
                  /\ blog_content' = done.rows
                  /\ log' = log \cup
                       {[handler |-> "handle_blog_content", url |-> url,
                         blog_id |-> generate_blog_id(url, title),
                         outcome |-> IF fault = "none" THEN "processed" ELSE "error",
                         fault |-> fault]}
    /\ request_queue' = request_queue \ {url}
    /\ phase' = AfterBlogHandler(request_queue, url, log' \ log)
    /\ extracted' = extracted \cup {url}
    /\ UNCHANGED <<cascadeVars, pdf_files, optionVars, lm,
                   runs, blog_links, link_i, processed_urls, blog_requests,
                   dispatched, ledger_at_start, db_ops>>

\* the crawler takes any queued request; the page and the writes answer as
\* they may
HandleBlog ==
    \E url \in request_queue, title \in TitlesAt(runs), outcomes \in HandlerOutcomeRuns,
       fault \in Faults :
        HandleRequest(url, title, outcomes, fault)

\* main.py:96  max_requests_per_crawl is reached: the crawler hands out no
\* further request and the run ends with the rest of the queue unhandled
CrawlerStops ==
    /\ phase = "queue"
    /\ RequestsHandled >= max_requests_per_crawl(MAX_BLOGS_TO_PROCESS)
    /\ phase' = "done"
    /\ UNCHANGED <<cascadeVars, storeVars, optionVars, lm,
                   runs, blog_links, link_i, processed_urls, blog_requests,
                   request_queue, dispatched, extracted, ledger_at_start, log>>

\* routes.py:1558-1601  an exception in the loop body of one link: raised by
\* get_attribute (1561) before anything was done, or by Request.from_url
\* (1595) after the href was marked; the except block logs it and the loop
\* goes to the next link
LinkRaises ==
    /\ LinkLeft
    /\ \E at \in {"get_attribute", "from_url"} :
         /\ at = "from_url" => (Decision = "proceed" /\ ~IsPdfUrl(Href))
         /\ processed_urls' = IF at = "from_url" THEN processed_urls \cup {Href}
                               ELSE processed_urls
         /\ log' = log \cup {[handler |-> "handle_main_page", link |-> link_i,
                               at |-> at, outcome |-> "error"]}
    /\ link_i' = link_i + 1
    /\ UNCHANGED <<cascadeVars, storeVars, optionVars, lm,
                   runs, phase, blog_links, blog_requests, request_queue, dispatched,
                   extracted, ledger_at_start>>

\* main.py:96-100  crawler.run returns: the queue is empty, the process ends
\* and with it the state of the session; what is on disk stays
EndRun ==
    /\ phase = "done"
    /\ phase' = "idle"
    /\ FORCE_REEXTRACT_BLOGS' = FALSE
    /\ MAX_BLOGS_TO_PROCESS' = -1
    /\ LOAD_MORE' = FALSE
    /\ TEST_ONLY_PROBLEMATIC_DOMAINS' = FALSE
    /\ link_i' = 0
    /\ processed_urls' = {}
    /\ blog_requests' = <<>>
    /\ request_queue' = {}
    /\ dispatched' = <<>>
    /\ extracted' = {}
    /\ ledger_at_start' = {}
    /\ log' = {}
    /\ UNCHANGED <<cascadeVars, storeVars, runs, blog_links, lm>>

Next ==
    \/ StartRun
    \/ PassLink
    \/ DispatchPdf
    \/ EnqueueBlog
    \/ FinishMainPage
    \/ HandleBlog
    \/ EndRun

Spec == Init /\ [][Next]_vars

\* ------------------------------------------------------------------------
\* Crawl runs in which the loop body of a link may raise
\* ------------------------------------------------------------------------

\* index pages of MaxLinks links, each an article or a PDF
FaultLinkLists == [1..MaxLinks -> {BlogA, BlogB, PdfC}]

InitFaults ==
    /\ cas = NewCascade
    /\ casPage = TRUE
    /\ blog_links \in FaultLinkLists
    /\ CrawlIdle

NextFaults ==
    \/ Next
    \/ LinkRaises

SpecFaults == InitFaults /\ [][NextFaults]_vars

\* ------------------------------------------------------------------------
\* Crawl runs over a long index page
\* ------------------------------------------------------------------------

\* the k-th article of a long index page
NumberedUrl(k) == <<"https:", "//", "n.com", "/", ToString(k)>>

\* index pages with as many article links as max_requests_per_crawl allows
\* requests when no limit is asked for, each link another article
LongLinkLists == {[k \in 1..NoLimitRequests |-> NumberedUrl(k)]}

\* every strategy call of the handler answers alike: newspaper3k is accepted
FirstAccepted == CHOOSE r \in HandlerOutcomeRuns : Usable(r[1])

\* the crawler takes the requests in the order they were added, and the
\* page and the writes do not fail
HandleNext ==
    /\ Cardinality(extracted) < Len(blog_requests)
    /\ HandleRequest(blog_requests[Cardinality(extracted) + 1], <<"T1">>,
                     FirstAccepted, "none")

InitBudget ==
    /\ cas = NewCascade
    /\ casPage = TRUE
    /\ blog_links \in LongLinkLists
    /\ CrawlIdle

NextBudget ==
    \/ StartRun
    \/ PassLink
    \/ EnqueueBlog
    \/ FinishMainPage
    \/ HandleNext
    \/ CrawlerStops
    \/ EndRun

SpecBudget == InitBudget /\ [][NextBudget]_vars

\* ------------------------------------------------------------------------
\* The link loop of handle_main_page over a catalog as it may be found
\* ------------------------------------------------------------------------

\* the values the columns extraction_quality and content_length of a row
\* found in blog_content may have
LedgerQualities == {"failed", "medium"}

LedgerLengths == {NullLength, 0, MinContentLength, MinContentLength + 1}

\* routes.py:1225-1240  a row of blog_content
LedgerRow(url, extraction_quality, content_length) ==
    [blog_id |-> generate_blog_id(url, <<"T1">>),
     title |-> <<"T1">>,
     url |-> url,
     content_length |-> content_length,
     image_count |-> 0,
     text_file_path |-> TextPath(generate_blog_id(url, <<"T1">>), <<"T1">>),
     extraction_method |-> "readability",
     extraction_quality |-> extraction_quality]

LedgerRowsOf(url) ==
    {{}} \cup {{LedgerRow(url, q, n)} : q \in LedgerQualities, n \in LedgerLengths}

\* the catalogs a run may find: no row or any row for the first article,
\* no row or a row just above the length rule for the second
Ledgers ==
    {a \cup b : a \in LedgerRowsOf(BlogA),
                b \in {{}, {LedgerRow(BlogB, "medium", MinContentLength + 1)}}}

InitLedger ==
    /\ cas = NewCascade
    /\ casPage = TRUE
    /\ blog_links \in LinkLists
    /\ blog_content \in Ledgers
    /\ NoSession

NextLedger ==
    \/ StartRun
    \/ PassLink
    \/ DispatchPdf
    \/ EnqueueBlog
    \/ FinishMainPage

SpecLedger == InitLedger /\ [][NextLedger]_vars

\* the same walks by runs started with any of main's options
NextFlags ==
    \/ StartFlaggedRun
    \/ PassLink
    \/ DispatchPdf
    \/ EnqueueBlog
    \/ FinishMainPage

SpecFlags == InitLedger /\ [][NextFlags]_vars

\* ------------------------------------------------------------------------
\* The crawl over index pages of one link, of every form a URL may have
\* ------------------------------------------------------------------------

PdfUpper == <<"https:", "//", "c.org", "/", "paper", ".PDF">>
PdfDir == <<"https:", "//", "d.org", "/", "pdf", "/", "doc">>
ArxivPdf == <<"https:", "//", "arxiv.org", "/", "pdf", "/", "1706">>
ArxivAbs == <<"https:", "//", "arxiv.org", "/", "abs", "/", "1706">>
PdfsPage == <<"https:", "//", "e.com", "/", "pdfs">>

RoutingHrefs == {BlogA, PdfC, PdfUpper, PdfDir, ArxivPdf, ArxivAbs, PdfsPage, NoHref}

InitRouting ==
    /\ cas = NewCascade
    /\ casPage = TRUE
    /\ blog_links \in {<<h>> : h \in RoutingHrefs}
    /\ CrawlIdle

SpecRouting == InitRouting /\ [][Next]_vars

\* ------------------------------------------------------------------------
\* load_more_handler
\* ------------------------------------------------------------------------

\* routes.py:125
MAX_BUTTON_CLICKS == 20

\* the largest number of table cells the modelled page shows
MaxCells == 2

\* routes.py:820-821  what the count of div[data-row-index] may answer
CellCounts == 0..MaxCells

\* a loop that counts only the clicks that went through
AfterClick_OnlySuccess(click_count, click_success) ==
    IF click_success THEN click_count + 1 ELSE click_count

\* routes.py:804-814  try_button_click answered click_success; a failed
\* click is taken for a success and the click is counted
AfterClick(click_count, click_success) == click_count + 1

\* routes.py:733-775  load_more_handler is called on a page
InitLoadMore ==
    /\ cas = NewCascade
    /\ casPage = TRUE
    /\ blog_links = <<>>
    /\ blog_content = {}
    /\ FORCE_REEXTRACT_BLOGS = FALSE
    /\ MAX_BLOGS_TO_PROCESS = -1
    /\ LOAD_MORE = TRUE
    /\ TEST_ONLY_PROBLEMATIC_DOMAINS = FALSE
    /\ lm = [pc |-> "called", click_count |-> 0, previous_cell_count |-> 0,
             iterations |-> 0, how |-> "running"]
    /\ pdf_files = {} /\ files = {} /\ runs = 0 /\ phase = "idle" /\ link_i = 0
    /\ processed_urls = {} /\ blog_requests = <<>> /\ request_queue = {}
    /\ dispatched = <<>> /\ extracted = {} /\ ledger_at_start = {} /\ log = {}
    /\ db_ops = NoOps

\* routes.py:741-775  the selectors are tried: with no button the handler
\* returns, else the loop starts with click_count 0
FindButton ==
    /\ lm.pc = "called"
    /\ \E found \in BOOLEAN :
         lm' = IF found THEN [lm EXCEPT !.pc = "loop"]
               ELSE [lm EXCEPT !.pc = "returned", !.how = "no_button"]
    /\ UNCHANGED <<cascadeVars, storeVars, optionVars, runs, phase, blog_links, link_i,
                   processed_urls, blog_requests, request_queue, dispatched,
                   extracted, ledger_at_start, log>>

\* routes.py:776-842  one run of the loop body: the button is gone or not
\* visible, or something raises before the click (break); else the click is
\* made and counted, after which an exception, no new cells after the first
\* click, or a button that disappeared break the loop
Iterate ==
    /\ lm.pc = "loop"
    /\ lm.click_count < MAX_BUTTON_CLICKS
    /\ lm.iterations <= MAX_BUTTON_CLICKS
    /\ \/ \E how \in {"no_button_left", "not_visible", "exception"} :
            lm' = [lm EXCEPT !.pc = "returned", !.how = how,
                             !.iterations = @ + 1]
       \/ \E click_success \in BOOLEAN :
            LET click_count == AfterClick(lm.click_count, click_success)
                clicked == [lm EXCEPT !.click_count = click_count,
                                      !.iterations = @ + 1]
            IN \/ lm' = [clicked EXCEPT !.pc = "returned", !.how = "exception"]
               \/ \E cell_count \in CellCounts, button_left \in BOOLEAN :
                    LET new_cells == cell_count - lm.previous_cell_count
                    IN lm' = IF new_cells = 0 /\ click_count > 1
                             THEN [clicked EXCEPT !.pc = "returned",
                                                  !.how = "no_new_cells"]
                             ELSE IF ~button_left
                             THEN [clicked EXCEPT !.pc = "returned",
                                                  !.how = "button_disappeared",
                                                  !.previous_cell_count = cell_count]
                             ELSE [clicked EXCEPT !.previous_cell_count = cell_count]
    /\ UNCHANGED <<cascadeVars, storeVars, optionVars, runs, phase, blog_links, link_i,
                   processed_urls, blog_requests, request_queue, dispatched,
                   extracted, ledger_at_start, log>>

\* routes.py:776, 844-847  the loop condition fails: max_clicks is reached
LeaveLoop ==
    /\ lm.pc = "loop"
    /\ lm.click_count >= MAX_BUTTON_CLICKS
    /\ lm' = [lm EXCEPT !.pc = "returned", !.how = "max_clicks"]
    /\ UNCHANGED <<cascadeVars, storeVars, optionVars, runs, phase, blog_links, link_i,
                   processed_urls, blog_requests, request_queue, dispatched,
                   extracted, ledger_at_start, log>>

NextLoadMore ==
    \/ FindButton
    \/ Iterate
    \/ LeaveLoop

\* every await of the handler returns (each Playwright call has a timeout)
SpecLoadMore == InitLoadMore /\ [][NextLoadMore]_vars /\ WF_vars(NextLoadMore)

\* ------------------------------------------------------------------------
\* Catalog writes of handlers that run side by side
\* ------------------------------------------------------------------------

\* the write operations the handlers ask for: save_blog_content_to_database
\* (routes.py:1221-1289) and save_pdf_metadata_to_database (routes.py:921-966)
StoreWrites ==
    {[table |-> "blog_content", row |-> LedgerRow(u, q, MinContentLength + 1)] :
        u \in {BlogA, BlogB}, q \in LedgerQualities}
    \cup {[table |-> "pdf_files",
            row |-> [pdf_id |-> generate_blog_id(PdfC, PdfTitle(PdfC)), url |-> PdfC,
                     file_path |-> PdfPath(generate_blog_id(PdfC, PdfTitle(PdfC)),
                                           PdfTitle(PdfC)),
                     file_size |-> PdfCheckedAbove + 1]]}

\* routes.py:847-849, 868  a handler awaits execute_db_operation: the
\* operation is handed to a worker thread by asyncio.to_thread; nothing is
\* asked of the other slots
CallWrite(s) ==
    /\ db_ops[s].pc = "idle"
    /\ \E w \in StoreWrites :
         db_ops' = [db_ops EXCEPT ![s] = [pc |-> "called", table |-> w.table,
                                          row |-> w.row]]
    /\ UNCHANGED <<cascadeVars, blog_content, pdf_files, files, runVars>>

\* routes.py:853-854  the thread opens a connection of its own
Connect(s) ==
    /\ db_ops[s].pc = "called"
    /\ db_ops' = [db_ops EXCEPT ![s].pc = "connected"]
    /\ UNCHANGED <<cascadeVars, blog_content, pdf_files, files, runVars>>

\* another connection holds statements it has not committed
WriteLockHeld(s) == \E t \in Slots \ {s} : db_ops[t].pc = "executed"

\* routes.py:857  operation_func(cursor): CREATE TABLE IF NOT EXISTS and
\* INSERT OR REPLACE are executed in the connection's transaction; the
\* statement waits while the database file is locked by another connection
Execute(s) ==
    /\ db_ops[s].pc = "connected"
    /\ ~WriteLockHeld(s)
    /\ db_ops' = [db_ops EXCEPT ![s].pc = "executed"]
    /\ UNCHANGED <<cascadeVars, blog_content, pdf_files, files, runVars>>

\* routes.py:857, 860-862  the wait runs out ("database is locked"): the
\* statement raises and the operation is rolled back
ExecuteLocked(s) ==
    /\ db_ops[s].pc = "connected"
    /\ WriteLockHeld(s)
    /\ db_ops' = [db_ops EXCEPT ![s].pc = "failed"]
    /\ UNCHANGED <<cascadeVars, blog_content, pdf_files, files, runVars>>

\* routes.py:858-859, 863-864  commit, close and return
Commit(s) ==
    /\ db_ops[s].pc = "executed"
    /\ IF db_ops[s].table = "blog_content"
       THEN /\ blog_content' = InsertOrReplace(blog_content, db_ops[s].row)
            /\ UNCHANGED pdf_files
       ELSE /\ pdf_files' = InsertOrReplacePdf(pdf_files, db_ops[s].row)
            /\ UNCHANGED blog_content
    /\ db_ops' = [db_ops EXCEPT ![s] = [pc |-> "idle", last |-> "returned"]]
    /\ UNCHANGED <<cascadeVars, files, runVars>>

\* routes.py:860-864, 869-870  rollback, close, and the exception goes to
\* the caller
Rollback(s) ==
    /\ db_ops[s].pc = "failed"
    /\ db_ops' = [db_ops EXCEPT ![s] = [pc |-> "idle", last |-> "raised"]]
    /\ UNCHANGED <<cascadeVars, blog_content, pdf_files, files, runVars>>

InitStore ==
    /\ cas = NewCascade
    /\ casPage = TRUE
    /\ blog_links = <<>>
    /\ CrawlIdle

NextStore ==
    \E s \in Slots :
        \/ CallWrite(s)
        \/ Connect(s)
        \/ Execute(s)
        \/ ExecuteLocked(s)
        \/ Commit(s)
        \/ Rollback(s)

SpecStore == InitStore /\ [][NextStore]_vars

\* ------------------------------------------------------------------------
\* Properties of the cascade
\* ------------------------------------------------------------------------


\* a strategy answered with a non-empty text
Candidate(outcome) == outcome.kind = "dict" /\ outcome.result.text.len > 0

InSeq(x, seq) == \E k \in 1..Len(seq) : seq[k] = x

\* C1: the strategies are called in the order newspaper3k, readability,
\* playwright, and a strategy that answered with at least 500 characters is
\* the last one called: the cascade has returned and called nothing after it.
C1_CascadeStopsAtFirstAccepted ==
    /\ Len(cas.calls) <= 3
    /\ \A i \in 1..Len(cas.calls) :
         /\ cas.calls[i].method = <<"newspaper3k", "readability", "playwright">>[i]
         /\ Usable(cas.calls[i].outcome) => (i = Len(cas.calls) /\ cas.pc = Returned)

C1_Witness ==
    /\ cas.pc = Returned
    /\ Len(cas.calls) = 1
    /\ Usable(cas.calls[1].outcome)
    /\ casPage

\* C2: a strategy that answered with a non-empty text of length L counts as
\* successful iff L >= 500 and as failed iff L < 500, and when it is accepted
\* the result carries its text and the tier high, medium, low of strategy
\* 1, 2, 3.
C2_QualityGate ==
    \A i \in 1..Len(cas.calls) :
      LET o == cas.calls[i].outcome
          m == cas.calls[i].method
      IN Candidate(o) =>
           /\ InSeq(m, cas.res.methods_successful) <=> (o.result.text.len >= 500)
           /\ InSeq(m, cas.res.methods_failed) <=> (o.result.text.len < 500)
           /\ (o.result.text.len >= 500) =>
                /\ cas.res.extraction_quality = <<"high", "medium", "low">>[i]
                /\ cas.res.final_result.text = o.result.text

C2_Witness ==
    /\ cas.pc = Returned
    /\ \E i, j \in 1..Len(cas.calls) :
         /\ i < j
         /\ cas.calls[i].outcome.kind = "dict"
         /\ cas.calls[i].outcome.result.text.len = 499
         /\ InSeq(cas.calls[i].method, cas.res.methods_failed)
         /\ cas.calls[j].outcome.kind = "dict"
         /\ cas.calls[j].outcome.result.text.len = 500
         /\ cas.res.methods_successful = <<cas.calls[j].method>>

\* C3: a returned result is tier "failed" iff its text is the sentinel and
\* its images are empty, and it is the sentinel exactly when no strategy
\* answered with at least 500 characters; any other result has at least 500
\* characters.
C3_SentinelIffFailed ==
    cas.pc = Returned =>
      LET fr == cas.res.final_result
          failed == cas.res.extraction_quality = "failed"
      IN /\ fr # None
         /\ failed <=> (fr.text.says = "EXTRACTION_FAILED_ALL_METHODS" /\ fr.images = <<>>)
         /\ failed <=> (\A i \in 1..Len(cas.calls) : ~Usable(cas.calls[i].outcome))
         /\ ~failed => fr.text.len >= 500

C3_Witness ==
    /\ cas.pc = Returned
    /\ cas.res.extraction_quality = "failed"
    /\ cas.res.final_result.text.says = "EXTRACTION_FAILED_ALL_METHODS"
    /\ \E i \in 1..Len(cas.calls) :
         /\ Candidate(cas.calls[i].outcome)
         /\ cas.calls[i].outcome.result.images # <<>>

CandidateMethods(calls) ==
    LET acc[k \in 0..Len(calls)] ==
            IF k = 0 THEN <<>>
            ELSE IF Candidate(calls[k].outcome)
                 THEN Append(acc[k - 1], calls[k].method)
                 ELSE acc[k - 1]
    IN acc[Len(calls)]

C9_NoTwoRecordsOfOneUrl ==
    cas.pc = Returned =>
        LET images == cas.res.final_result.images
        IN \A i, j \in 1..Len(images) : images[i].url = images[j].url => i = j

\* ------------------------------------------------------------------------
\* Properties of the crawl
\* ------------------------------------------------------------------------

Tiers == {"high", "medium", "low"}

\* a token sequence holds the URL u
Mentions(tokens, u) ==
    \E k \in 1..(Len(tokens) - Len(u) + 1) : SubSeq(tokens, k, k + Len(u) - 1) = u

\* the files kept for the article or document of URL u: those in a directory
\* or under a name made of its id
FilesOf(fs, u) ==
    {f \in fs : \/ Mentions(f.path.dir, u)
                \/ ("stem" \in DOMAIN f.path.name /\ Mentions(f.path.name.stem, u))}

RowsOf(rows, u) == {r \in rows : r.url = u}

WasDispatched(u) == \E j \in 1..Len(dispatched) : dispatched[j].url = u

HasFailedLog(fs, u) ==
    \E f \in FilesOf(fs, u) :
        f.content.kind = "extraction_log" /\ f.content.extraction_quality = "failed"

\* C4: every blog_content row has content_length >= 500 and a tier high,
\* medium or low; every text file holds at least 500 characters and every
\* metadata.json a tier; and an article whose cascade ended with the
\* sentinel has its extraction log and nothing else: no text file, no
\* metadata.json, no row.
C4_OnlyAcceptedPersisted ==
    /\ \A r \in blog_content :
         r.content_length >= QualityThreshold /\ r.extraction_quality \in Tiers
    /\ \A f \in files :
         /\ f.content.kind = "text" => f.content.content_length >= QualityThreshold
         /\ f.content.kind = "metadata" => f.content.extraction_quality \in Tiers
    /\ runs = 1 =>
         \A u \in extracted :
             HasFailedLog(files, u) =>
                 /\ RowsOf(blog_content, u) = {}
                 /\ \A f \in FilesOf(files, u) : f.content.kind = "extraction_log"

\* an accepted article is in the catalog with exactly 500 characters, and
\* another article of the same run failed and left its log
C4_Witness ==
    /\ runs = 1
    /\ \E r \in blog_content : r.content_length = QualityThreshold
    /\ \E u \in extracted : HasFailedLog(files, u) /\ RowsOf(blog_content, u) = {}

\* C5: a link with href that the loop went past was dispatched iff the force
\* flag is set, or blog_content has no row of its URL, or the row says failed
\* or has a content_length that is NULL or at most 100; every other link was
\* skipped (100 proceeds, 101 is skipped).
C5_LedgerDecision ==
    phase # "idle" =>
        \A k \in 1..link_i :
            LET h == blog_links[k]
                rows == RowsOf(blog_content, h)
            IN h # NoHref =>
                 (WasDispatched(h) <=>
                     \/ FORCE_REEXTRACT_BLOGS
                     \/ rows = {}
                     \/ \E r \in rows :
                          \/ r.extraction_quality = "failed"
                          \/ r.content_length = NullLength
                          \/ r.content_length <= MinContentLength)

\* without the force flag the article with a row of 100 characters was
\* enqueued and the one with a row of 101 characters was skipped
C5_Witness ==
    /\ ~FORCE_REEXTRACT_BLOGS
    /\ blog_links = <<BlogA, BlogB>>
    /\ link_i = 2
    /\ \E r \in RowsOf(blog_content, BlogA) :
         r.extraction_quality = "medium" /\ r.content_length = MinContentLength
    /\ \E r \in RowsOf(blog_content, BlogB) :
         r.extraction_quality = "medium" /\ r.content_length = MinContentLength + 1
    /\ dispatched = <<[url |-> BlogA, route |-> "BLOG"]>>

\* the URLs the run found with a successful row
SuccessfulAtStart ==
    {r.url : r \in {x \in ledger_at_start :
                       /\ x.extraction_quality # "failed"
                       /\ x.content_length > MinContentLength}}

\* C6: in a run without the force flag, no step dispatches or extracts a URL
\* that the run found with a successful row, writes a file of it, or changes
\* its row.
C6_SecondRunSkips ==
    [][(phase # "idle" /\ ~FORCE_REEXTRACT_BLOGS) =>
          \A u \in SuccessfulAtStart :
              /\ u \notin extracted'
              /\ \A j \in 1..Len(dispatched') : dispatched'[j].url # u
              /\ RowsOf(blog_content', u) = RowsOf(ledger_at_start, u)
              /\ FilesOf(files', u) = FilesOf(files, u)]_vars

\* a second run without the force flag went past the link of an article the
\* first run had extracted, and ended with nothing dispatched
C6_Witness ==
    /\ runs = 2
    /\ ~FORCE_REEXTRACT_BLOGS
    /\ phase = "done"
    /\ blog_links = <<BlogA>>
    /\ link_i = 1
    /\ BlogA \in SuccessfulAtStart
    /\ extracted = {}
    /\ dispatched = <<>>

\* C7: blog_content holds at most one row per url and at most one per
\* blog_id, and a run with the force flag dispatches every link with href it
\* goes past, whatever the catalog holds.
C7_OneRowPerUrlAndId ==
    /\ \A r1, r2 \in blog_content :
         (r1.url = r2.url \/ r1.blog_id = r2.blog_id) => r1 = r2
    /\ (phase # "idle" /\ FORCE_REEXTRACT_BLOGS) =>
         \A k \in 1..link_i : blog_links[k] # NoHref => WasDispatched(blog_links[k])

\* a forced second run extracted an article again whose title had changed,
\* and its row took the place of the row of the first run
C7_Witness ==
    /\ runs = 2
    /\ FORCE_REEXTRACT_BLOGS
    /\ BlogA \in extracted
    /\ \E r \in RowsOf(ledger_at_start, BlogA) : r.title = <<"T1">>
    /\ \E r \in RowsOf(blog_content, BlogA) : r.title = <<"T2">>
    /\ Cardinality(RowsOf(blog_content, BlogA)) = 1

\* C10: every row of pdf_files is the row of a file whose first four bytes
\* are %PDF: a payload that fails the magic-byte check gets no row.
C10_NoRowUnlessPdfMagic ==
    \A r \in pdf_files :
        \A f \in FileAt(files, r.file_path) : f.content.magic_bytes = "%PDF"

\* C11: a dispatched URL took the PDF path iff its lower-cased form ends in
\* .pdf, holds /pdf/ or holds arxiv.org/pdf, and then it is no BLOG request
\* and was not extracted; every other dispatched URL is a BLOG request.
C11_PdfRouting ==
    \A j \in 1..Len(dispatched) :
        LET u == dispatched[j].url
            route == dispatched[j].route
            is_request == \E k \in 1..Len(blog_requests) : blog_requests[k] = u
        IN /\ route \in {"PDF", "BLOG"}
           /\ route = "PDF" <=> u \in {PdfC, PdfUpper, PdfDir, ArxivPdf}
           /\ route = "PDF" => ~is_request /\ u \notin request_queue /\ u \notin extracted
           /\ route = "BLOG" => is_request

\* the link https://d.org/pdf/doc, which has no .pdf suffix, went to the PDF
\* path and the run ended without a BLOG request
C11_Witness ==
    /\ phase = "done"
    /\ dispatched = <<[url |-> PdfDir, route |-> "PDF"]>>
    /\ blog_requests = <<>>
    /\ extracted = {}

\* C12: handle_pdf_url_directly makes at most max_retries (3) download
\* attempts for one URL; when none of them saves the file, the handler leaves
\* pdf_files as it found it, ends in a logged failure ("gave_up" after three
\* unusable responses, "error" after an exception on the last attempt) and
\* handle_main_page goes on with the next link
PdfRecords(l) == {r \in l : r.handler = "handle_pdf_url_directly"}

C12_PdfGivesUpAfterThree ==
    [][\A r \in PdfRecords(log') \ PdfRecords(log) :
          /\ r.attempts \in 1..max_retries
          /\ r.outcome \in {"saved", "gave_up", "error"}
          /\ r.outcome # "saved" =>
                /\ r.attempts = max_retries
                /\ pdf_files' = pdf_files
                /\ phase' = "links"
                /\ link_i' = link_i + 1]_vars

C12_Witness ==
    /\ \E r \in PdfRecords(log) : r.outcome = "gave_up" /\ r.attempts = max_retries
    /\ Len(dispatched) = 2
    /\ dispatched[1].route = "PDF"
    /\ dispatched[2].route = "BLOG"
    /\ pdf_files = {}

\* C13 as claimed: every image file the cascade and its supplementation pass
\* write for an article lies in a directory keyed by that article's id, so
\* that two articles never write the same path. extract_content_hybrid is
\* called as handle_blog_content calls it, with no blog_images_dir.
C13_ImageFilesUnderArticleDirectory ==
    cas.pc = Returned =>
        LET images == cas.res.final_result.images
        IN \A i \in 1..Len(images) : Mentions(images[i].file_path.dir, BaseUrl)

\* C14 as claimed: catalog writes of handlers that run side by side are
\* serialized: at no time are two calls of a write operation (each one call
\* of execute_db_operation) in progress at once.
C14_OneWriteInProgress ==
    Cardinality({s \in Slots : db_ops[s].pc # "idle"}) <= 1

\* C15: within one crawl session no URL is dispatched (sent to the PDF path
\* or enqueued as a BLOG request) more than once, also when the index page
\* lists the same href several times: a URL is put into processed_urls when
\* it is dispatched, so a later occurrence of the href is passed over, and
\* no BLOG request is made twice.
C15_NoUrlDispatchedTwice ==
    /\ \A i, j \in 1..Len(dispatched) :
          dispatched[i].url = dispatched[j].url => i = j
    /\ {dispatched[j].url : j \in 1..Len(dispatched)} \subseteq processed_urls
    /\ Len(blog_requests) = Cardinality({blog_requests[k] : k \in 1..Len(blog_requests)})

C15_Witness ==
    /\ phase = "queue"
    /\ blog_links = <<BlogA, BlogA>>
    /\ link_i = 2
    /\ dispatched = <<[url |-> BlogA, route |-> "BLOG"]>>
    /\ blog_requests = <<BlogA>>

\* C16: an exception raised while one URL is handled (in handle_blog_content,
\* in the loop body of a link of handle_main_page, in handle_pdf_url_directly)
\* is caught and logged and does not end the crawl: after a failed link the
\* loop is at the next link, after a failed BLOG request the other queued
\* requests are still waiting to be handled, and a run is only over when
\* every link was gone through and every BLOG request was handled.
ErrorsLogged(l) == {r \in l : r.outcome = "error"}

C16_FaultsDoNotEndTheCrawl ==
    /\ [](phase = "done" =>
            /\ link_i = LinkLimit(MAX_BLOGS_TO_PROCESS, Len(blog_links))
            /\ request_queue = {}
            /\ \A k \in 1..Len(blog_requests) : blog_requests[k] \in extracted)
    /\ [][\A r \in ErrorsLogged(log') \ ErrorsLogged(log) :
            IF r.handler = "handle_blog_content"
            THEN /\ request_queue' = request_queue \ {r.url}
                 /\ request_queue' # {} => phase' = "queue"
            ELSE /\ phase' = "links"
                 /\ link_i' = link_i + 1]_vars

C16_Witness ==
    /\ phase = "done"
    /\ extracted = {BlogA, BlogB}
    /\ \E r \in ErrorsLogged(log) : r.handler = "handle_blog_content" /\ r.url = BlogA
    /\ \E r \in log : r.handler = "handle_blog_content" /\ r.url = BlogB
                         /\ r.outcome = "processed"
    /\ RowsOf(blog_content, BlogB) # {}

\* a strategy call after which the cascade went on or gave its result
CascadeWentOn(k) ==
    k = Len(cas.calls) =>
        \/ cas.pc > k
        \/ cas.pc = Returned /\ cas.res.extraction_quality = "failed"

ReturnsResult ==
    cas.pc = Returned =>
        /\ cas.res.final_result # None
        /\ cas.res.extraction_quality \in {"high", "medium", "low", "failed"}

\* C17 as claimed: whatever exception a strategy or its image enhancement
\* throws, it is recorded as that strategy's failure in methods_failed and
\* errors and the cascade goes on with the next strategy; the call returns a
\* result with final_result set and a quality of high, medium, low or failed.
C17_EveryExceptionIsAStrategyFailure ==
    /\ \A k \in 1..Len(cas.calls) :
          LET call == cas.calls[k]
          IN (call.outcome.kind = "raise" \/ call.enhance_raised) =>
                /\ InSeq(call.method, cas.res.methods_failed)
                /\ InSeq(<<call.method, "exception">>, cas.res.errors)
                /\ CascadeWentOn(k)
    /\ ReturnsResult

\* C17 as amended: extract_content_hybrid never raises. An exception thrown
\* by a strategy is recorded as that strategy's failure in methods_failed
\* and errors and the cascade goes on with the next strategy. An exception
\* thrown by the image enhancement is swallowed inside the enhancement,
\* which hands the strategy's result back as it came: it is recorded
\* nowhere and the strategy is accepted or rejected on its text alone. The
\* call returns a result with final_result set and a quality of high,
\* medium, low or failed, never unknown.
C17_NeverRaises ==
    /\ \A k \in 1..Len(cas.calls) :
          LET call == cas.calls[k]
          IN /\ call.outcome.kind = "raise" =>
                  /\ InSeq(call.method, cas.res.methods_failed)
                  /\ InSeq(<<call.method, "exception">>, cas.res.errors)
                  /\ CascadeWentOn(k)
             /\ call.enhance_raised =>
                  /\ ~InSeq(<<call.method, "exception">>, cas.res.errors)
                  /\ InSeq(call.method, cas.res.methods_successful) <=> Usable(call.outcome)
                  /\ Usable(call.outcome) =>
                        cas.pc = Returned /\ cas.res.final_result = call.outcome.result
    /\ ReturnsResult
    /\ Len(cas.res.errors) = Len(cas.res.methods_failed)

C17_Witness ==
    /\ cas.pc = Returned
    /\ ~casPage
    /\ Len(cas.calls) = 2
    /\ cas.calls[1].outcome.kind = "raise"
    /\ cas.calls[2].enhance_raised
    /\ cas.res.methods_failed = <<"newspaper3k">>
    /\ cas.res.methods_successful = <<"readability">>
    /\ cas.res.extraction_quality = "medium"

\* C18 as claimed: when writing the text file, the metadata or the
\* blog_content row of an article fails, the article counts as unprocessed:
\* no blog_content row marks it successful, so that the next run without the
\* force flag proceeds with its URL.
C18_FailedWriteLeavesNoSuccessfulRow ==
    \A r \in ErrorsLogged(log) :
        r.handler = "handle_blog_content" =>
            /\ ~check_blog_extraction_status(r.url, blog_content).successful
            /\ LinkDecision(r.url, {}, FALSE, blog_content) = "proceed"

\* C19 as claimed: every processing attempt of a BLOG URL, whether it ended
\* accepted, cascade-failed or aborted by a handler fault, leaves a
\* diagnostics record of the attempt and one row for it in the flat summary
\* table extraction_issues_summary.csv.
C19_EveryAttemptLeavesARecordAndARow ==
    \A r \in log :
        r.handler = "handle_blog_content" =>
            /\ \E f \in FilesOf(files, r.url) : f.content.kind = "extraction_log"
            /\ \E f \in FileAt(files, SummaryCsvPath) :
                  Cardinality({k \in 1..Len(f.content.rows) :
                                  f.content.rows[k].url = r.url}) = 1

\* C20 as claimed: persisting the diagnostics record of an attempt never
\* modifies or overwrites the record of an earlier attempt: every
\* extraction log that is on disk stays on disk as it is, also when the same
\* URL is processed again under the same id.
C20_EarlierRecordsAreKept ==
    [][\A f \in files : f.content.kind = "extraction_log" => f \in files']_vars

\* C21: with max_blogs N > 0 at most N URLs are processed in one run: the
\* link loop looks at no more than the first N links, so no more than N URLs
\* are sent to the PDF path or enqueued, and no more than N go through the
\* extraction cascade.
C21_AtMostMaxBlogs ==
    MAX_BLOGS_TO_PROCESS > 0 =>
        /\ link_i <= MAX_BLOGS_TO_PROCESS
        /\ Len(dispatched) <= MAX_BLOGS_TO_PROCESS
        /\ Cardinality(extracted) <= MAX_BLOGS_TO_PROCESS
        /\ Cardinality(PdfRecords(log)) + Len(blog_requests) <= MAX_BLOGS_TO_PROCESS

C21_Witness ==
    /\ MAX_BLOGS_TO_PROCESS = 1
    /\ phase = "done"
    /\ blog_links = <<BlogA, BlogB>>
    /\ dispatched = <<[url |-> BlogA, route |-> "BLOG"]>>
    /\ extracted = {BlogA}

\* C22 as claimed: with max_blogs = -1 no cap applies: every link of the
\* index page that the ledger does not skip is dispatched and handled in that
\* run, however many links there are; when the run is over every dispatched
\* article has gone through the cascade.
C22_NoCapWithoutLimit ==
    (MAX_BLOGS_TO_PROCESS = -1 /\ phase = "done") =>
        /\ link_i = Len(blog_links)
        /\ \A k \in 1..Len(blog_requests) : blog_requests[k] \in extracted

\* C23 as claimed: with the test-problematic flag set a run processes only
\* URLs whose ledger entry shows a failed or low-quality prior result; a URL
\* with no ledger entry or with a good prior result is never dispatched in
\* such a run.
C23_OnlyProblematicUrls ==
    TEST_ONLY_PROBLEMATIC_DOMAINS =>
        \A j \in 1..Len(dispatched) :
            \E row \in RowsOf(ledger_at_start, dispatched[j].url) :
                \/ row.extraction_quality \in {"failed", "low"}
                \/ ~IsSuccessful(row.extraction_quality, row.content_length)

\* C24 as claimed: with the load-more flag set, load_more_handler has run on
\* the index page before any article URL is collected or enqueued; without
\* the flag it does not run.
C24_LoadMoreRunsFirst ==
    phase # "idle" =>
        IF LOAD_MORE THEN lm.pc = "returned" ELSE lm = NotCalled

\* C25: load_more_handler always terminates: every run of the body of its
\* click loop either leaves the loop or increases click_count by one, so the
\* body runs at most MAX_BUTTON_CLICKS (20) times whatever the page does
\* (the button never disappears, clicks fail, the cell count keeps
\* changing), and the handler returns.
C25_LoadMoreTerminates ==
    /\ [](/\ lm.iterations <= MAX_BUTTON_CLICKS
          /\ lm.click_count <= MAX_BUTTON_CLICKS
          /\ lm.iterations \in {lm.click_count, lm.click_count + 1})
    /\ [][(lm.pc = "loop" /\ lm.iterations' = lm.iterations + 1) =>
            \/ lm.pc' = "returned"
            \/ lm.click_count' = lm.click_count + 1]_vars
    /\ <>(lm.pc = "returned")

C25_Witness ==
    /\ lm.pc = "returned"
    /\ lm.how = "max_clicks"
    /\ lm.click_count = MAX_BUTTON_CLICKS
    /\ lm.iterations = MAX_BUTTON_CLICKS

\* C26 as claimed: running the extraction cascade and the image resolver
\* changes no persistent state: no step of extract_content_hybrid, with its
\* supplementation pass and _process_image, creates or modifies a catalog
\* row or a file.
C26_CascadeChangesNoPersistentState ==
    [][cas' # cas => /\ files' = files
                     /\ blog_content' = blog_content
                     /\ pdf_files' = pdf_files]_vars

\* C27 as claimed: a PDF URL that was downloaded and catalogued in one run (it
\* has a row in pdf_files) is not downloaded again in a later run without the
\* force flag: no call of handle_pdf_url_directly is made for it.
C27_CataloguedPdfNotDownloadedAgain ==
    [][~FORCE_REEXTRACT_BLOGS =>
          \A row \in pdf_files :
              \A r \in PdfRecords(log') \ PdfRecords(log) : r.url # row.url]_vars

\* C28 as claimed: the extraction log written in one processing attempt is
\* named with the blogId that handle_blog_content computed from the URL and
\* the page title (the id of the article directory and of the blog_content
\* row), whichever strategy won and also when the cascade failed.
C28_LogKeyedByHandlerBlogId ==
    [][\A r \in log' \ log :
          r.handler = "handle_blog_content" =>
              \A f \in files' \ files :
                  f.content.kind = "extraction_log" =>
                      f.path.name.stem = r.blog_id \o <<"_extraction_log">>]_vars

\* C29: the bookkeeping of every result of extract_content_hybrid:
\* methods_tried is a duplicate-free prefix of newspaper3k, readability,
\* playwright, without playwright when no page was given; it is the disjoint
\* union of methods_successful and methods_failed; methods_successful has at
\* most one element, which is the last of methods_tried and the
\* extraction_method of the final result; and there is one error per failed
\* method.
C29_Bookkeeping ==
    cas.pc = Returned =>
        LET r == cas.res
            tried == r.methods_tried
            ok == r.methods_successful
            failed == r.methods_failed
        IN /\ Len(tried) <= Len(StrategyOrder)
           /\ \A k \in 1..Len(tried) : tried[k] = StrategyOrder[k]
           /\ ~casPage => ~InSeq("playwright", tried)
           /\ \A m \in {"newspaper3k", "readability", "playwright"} :
                 /\ InSeq(m, tried) <=> (InSeq(m, ok) \/ InSeq(m, failed))
                 /\ ~(InSeq(m, ok) /\ InSeq(m, failed))
           /\ Len(tried) = Len(ok) + Len(failed)
           /\ Len(ok) <= 1
           /\ Len(ok) = 1 => /\ ok[1] = tried[Len(tried)]
                             /\ r.final_result.extraction_method = ok[1]
           /\ Len(r.errors) = Len(failed)

C29_Witness ==
    /\ cas.pc = Returned
    /\ casPage
    /\ cas.res.methods_tried = <<"newspaper3k", "readability", "playwright">>
    /\ cas.res.methods_failed = <<"newspaper3k", "readability">>
    /\ cas.res.methods_successful = <<"playwright">>
    /\ Len(cas.res.errors) = 2

\* C30 as claimed: within the final result of one cascade run no two image
\* records share a local file path, so that no download of the run
\* overwrites the file of another record, also when a download of the
\* strategy failed.
C30_NoTwoRecordsOfOnePath ==
    cas.pc = Returned =>
        LET images == cas.res.final_result.images
        IN \A i, j \in 1..Len(images) :
              images[i].file_path = images[j].file_path => i = j

====
